---------------------------- MODULE Spec2Model ----------------------------
(***************************************************************************)
(* State-machine model of the two scripts of Smart_Home_IOT:               *)
(*   Q1.py  monitor_sensors: poll a temperature/humidity sensor, store the *)
(*          reading in SQLite, publish it, alert over MQTT on a threshold. *)
(*   Q3.py  process_sensor_data: per soil-sensor message, enrich with the  *)
(*          weather, push to a bounded history, score, notify, publish.    *)
(* Real numbers are scaled integers: Q1 temperatures and humidities are in *)
(* thousandths (30.0 is 30000), Q3 probabilities in hundredths (0.7 is 70).*)
(***************************************************************************)
EXTENDS Integers, Sequences, FiniteSets, TLC

VARIABLES
    \* ---- Q1.py ----
    q1_pc,            \* position of monitor_sensors
    q1_cycle,         \* number of loop iterations begun
    q1_data,          \* data returned by read_sensor_data in this iteration
    q1_obtained,      \* history: readings returned by read_sensor_data so far
    q1_stores,        \* history: store_reading calls that returned / raised
    sensor_readings,  \* rows of table sensor_readings, in insertion order
    sqlite_sequence,  \* AUTOINCREMENT counter of the table
    q1_out,           \* messages published in this iteration, in order
    q1_alerts,        \* send_alert invocations in this iteration
    q1_raised,        \* step of this iteration that raised, or "none"
    q1_sleep,         \* argument of the time.sleep in progress (0: none)
    q1_log,           \* last line printed by the except clause ("" if none)
    \* ---- Q3.py ----
    q3_pc,            \* position of the script's main thread
    connected,        \* iot_client holds an open connection
    disconnect_calls, \* calls of iot_client.disconnect() so far
    exit_cause,       \* why the process stopped ("none" while it runs)
    subscribed,       \* process_sensor_data is registered on SENSOR_TOPIC
    cb_pc,            \* position of the process_sensor_data call in progress
    cb,               \* its local variables
    sensor_history,   \* the module-level list sensor_history
    pushed,           \* history: every data point ever appended, in order
    cb_trace,         \* what this call has done so far
    cb_other,         \* a second call of process_sensor_data, not running now
    overlaps,         \* calls begun so far while another call was in flight
    anomalies         \* inputs so far that deviated from the nominal ones

q1vars == <<q1_pc, q1_cycle, q1_data, q1_obtained, q1_stores, sensor_readings,
            sqlite_sequence, q1_out, q1_alerts, q1_raised, q1_sleep, q1_log>>

q3vars == <<q3_pc, connected, disconnect_calls, exit_cause, subscribed,
            cb_pc, cb, sensor_history, pushed, cb_trace, cb_other, overlaps,
            anomalies>>

vars == <<q1vars, q3vars>>

-----------------------------------------------------------------------------
(* Bounds of the model *)
MaxCycles == 3        \* iterations of monitor_sensors
MaxPushes == 26       \* data points appended to sensor_history
MaxAnomalies == 1     \* payloads or weather reports that are not the nominal one
MaxOverlaps == 1      \* calls of process_sensor_data begun during another call

(* Q1.py configuration, in thousandths *)
TEMPERATURE_THRESHOLD == 30000
HUMIDITY_THRESHOLD == 80000
SENSOR_INTERVAL == 60
RETRY_DELAY == 10

NoData == [temperature |-> 0, humidity |-> 0, timestamp |-> 0]

(* time.time() % 10 in quarter seconds: 0 .. 39.  The phases kept are the  *)
(* start of the ramp, the one giving humidity 80.0 exactly and the next.   *)
ClockPhases == {0, 35, 36}

(* read_sensor_data: the simulated ramp evaluated at clock phase q.        *)
(*   25.0 + 5*(t%10)/10  and  45.0 + 40*(t%10)/10,  t%10 = q/4             *)
read_sensor_data(q, now) ==
    [temperature |-> 25000 + 125 * q,
     humidity    |-> 45000 + 1000 * q,
     timestamp   |-> now]

(* Readings of an actual sensor put in place of the simulation (the source *)
(* directs this replacement): both values on their thresholds, the         *)
(* temperature alone above its threshold, both above.                      *)
SensorValues ==
    { <<30000, 80000>>, <<32000, 50000>>, <<32000, 85000>> }

Readings(now) ==
    { read_sensor_data(q, now) : q \in ClockPhases } \cup
    { [temperature |-> v[1], humidity |-> v[2], timestamp |-> now] :
        v \in SensorValues }


-----------------------------------------------------------------------------
(* Q1.py: the table and the alert *)

(* store_reading: INSERT of (temperature, humidity, timestamp); the id is  *)
(* the AUTOINCREMENT counter plus one, alert_sent takes its DEFAULT 0.     *)
InsertedRow(seq, temperature, humidity, timestamp) ==
    [id          |-> seq + 1,
     temperature |-> temperature,
     humidity    |-> humidity,
     timestamp   |-> timestamp,
     alert_sent  |-> 0]

(* variant: the INSERT is executed but never committed *)
store_reading_uncommitted(rows, seq, temperature, humidity, timestamp) ==
    rows

store_reading(rows, seq, temperature, humidity, timestamp) ==
    Append(rows, InsertedRow(seq, temperature, humidity, timestamp))

(* variant: the comparison includes the threshold itself *)
ExceedsThresholdInclusive(temp, hum) ==
    temp >= TEMPERATURE_THRESHOLD \/ hum >= HUMIDITY_THRESHOLD

(* the condition of the if guarding send_alert *)
ExceedsThreshold(temp, hum) ==
    temp > TEMPERATURE_THRESHOLD \/ hum > HUMIDITY_THRESHOLD

(* variant: the message names the temperature whichever metric is high *)
AlertMessageAlwaysTemperature(temperature, humidity, now) ==
    [alert     |-> "Temperature/Humidity Alert",
     message   |-> <<"Temperature", temperature, "C exceeds threshold",
                     TEMPERATURE_THRESHOLD>>,
     timestamp |-> now,
     values    |-> [temperature |-> temperature, humidity |-> humidity]]

(* the alert_message built by send_alert; the f-string is kept as the      *)
(* tuple <<metric, value, unit, threshold>> of the parts it formats.       *)
AlertMessage(temperature, humidity, now) ==
    [alert     |-> "Temperature/Humidity Alert",
     message   |-> IF temperature > TEMPERATURE_THRESHOLD
                   THEN <<"Temperature", temperature, "C exceeds threshold",
                          TEMPERATURE_THRESHOLD>>
                   ELSE <<"Humidity", humidity, "% exceeds threshold",
                          HUMIDITY_THRESHOLD>>,
     timestamp |-> now,
     values    |-> [temperature |-> temperature, humidity |-> humidity]]

(* variant: the try ends before the alert, whose exception is not caught *)
Q1ExceptTargetAlertUncaught(step) ==
    IF step = "alert" THEN "terminated" ELSE "except"

(* where control goes when a step inside the try raises: the except clause *)
Q1ExceptTarget(step) == "except"

Q1Raise(step) ==
    /\ q1_raised' = step
    /\ q1_pc' = Q1ExceptTarget(step)

-----------------------------------------------------------------------------
(* Q1.py: monitor_sensors, one action per statement that can fail *)

Q1InitDb ==
    /\ UNCHANGED q3vars
    /\ q1_pc = "init_db"
    /\ \/ q1_pc' = "read"
       \/ q1_pc' = "crashed"          \* init_db is outside the try
    /\ UNCHANGED <<q1_cycle, q1_data, q1_obtained, q1_stores, sensor_readings,
                   sqlite_sequence, q1_out, q1_alerts, q1_raised, q1_sleep,
                   q1_log>>

Q1Read ==
    /\ UNCHANGED q3vars
    /\ q1_pc = "read"
    /\ q1_cycle < MaxCycles
    /\ q1_cycle' = q1_cycle + 1
    /\ q1_out' = <<>>
    /\ q1_alerts' = 0
    /\ q1_sleep' = 0
    /\ \/ \E d \in Readings(q1_cycle + 1) :
             /\ q1_data' = d
             /\ q1_obtained' = Append(q1_obtained, d)
             /\ q1_raised' = "none"
             /\ q1_pc' = "store"
       \/ /\ Q1Raise("read")
          /\ q1_data' = NoData
          /\ UNCHANGED q1_obtained
    /\ UNCHANGED <<q1_stores, sensor_readings, sqlite_sequence, q1_log>>

(* variant: the store is moved behind the alert, the step here does nothing *)
Q1StoreDeferred ==
    /\ UNCHANGED q3vars
    /\ q1_pc = "store"
    /\ q1_pc' = "publish"
    /\ UNCHANGED <<q1_cycle, q1_data, q1_obtained, q1_stores, sensor_readings,
                   sqlite_sequence, q1_out, q1_alerts, q1_raised, q1_sleep,
                   q1_log>>

Q1Store ==
    /\ UNCHANGED q3vars
    /\ q1_pc = "store"
    /\ \/ /\ sensor_readings' =
                store_reading(sensor_readings, sqlite_sequence,
                              q1_data.temperature, q1_data.humidity,
                              q1_data.timestamp)
          /\ sqlite_sequence' = sqlite_sequence + 1
          /\ q1_stores' = [q1_stores EXCEPT !.returned = @ + 1]
          /\ q1_pc' = "publish"
          /\ UNCHANGED q1_raised
       \/ /\ Q1Raise("store")
          /\ q1_stores' = [q1_stores EXCEPT !.raised = @ + 1]
          /\ UNCHANGED <<sensor_readings, sqlite_sequence>>
    /\ UNCHANGED <<q1_cycle, q1_data, q1_obtained, q1_out, q1_alerts,
                   q1_sleep, q1_log>>

Q1Publish ==
    /\ UNCHANGED q3vars
    /\ q1_pc = "publish"
    /\ \/ /\ q1_out' = Append(q1_out, [kind |-> "data", payload |-> q1_data])
          /\ q1_pc' = "check"
          /\ UNCHANGED q1_raised
       \/ /\ Q1Raise("publish")
          /\ UNCHANGED q1_out
    /\ UNCHANGED <<q1_cycle, q1_data, q1_obtained, q1_stores, sensor_readings,
                   sqlite_sequence, q1_alerts, q1_sleep, q1_log>>

Q1Check ==
    /\ UNCHANGED q3vars
    /\ q1_pc = "check"
    /\ IF ExceedsThreshold(q1_data.temperature, q1_data.humidity)
       THEN /\ q1_pc' = "alert"
            /\ UNCHANGED q1_sleep
       ELSE /\ q1_pc' = "sleep"
            /\ q1_sleep' = SENSOR_INTERVAL
    /\ UNCHANGED <<q1_cycle, q1_data, q1_obtained, q1_stores, sensor_readings,
                   sqlite_sequence, q1_out, q1_alerts, q1_raised, q1_log>>

(* variant: send_alert also marks the row of the reading as alerted *)
Q1SendAlertMarksRow ==
    /\ UNCHANGED q3vars
    /\ q1_pc = "alert"
    /\ q1_alerts' = q1_alerts + 1
    /\ \/ /\ q1_out' = Append(q1_out,
                 [kind    |-> "alert",
                  payload |-> AlertMessage(q1_data.temperature,
                                           q1_data.humidity, q1_cycle)])
          /\ sensor_readings' =
                [sensor_readings EXCEPT ![Len(sensor_readings)].alert_sent = 1]
          /\ q1_pc' = "sleep"
          /\ q1_sleep' = SENSOR_INTERVAL
          /\ UNCHANGED q1_raised
       \/ /\ Q1Raise("alert")
          /\ UNCHANGED <<q1_out, q1_sleep, sensor_readings>>
    /\ UNCHANGED <<q1_cycle, q1_data, q1_obtained, q1_stores,
                   sqlite_sequence, q1_log>>

Q1SendAlert ==
    /\ UNCHANGED q3vars
    /\ q1_pc = "alert"
    /\ q1_alerts' = q1_alerts + 1
    /\ \/ /\ q1_out' = Append(q1_out,
                 [kind    |-> "alert",
                  payload |-> AlertMessage(q1_data.temperature,
                                           q1_data.humidity, q1_cycle)])
          /\ q1_pc' = "sleep"
          /\ q1_sleep' = SENSOR_INTERVAL
          /\ UNCHANGED q1_raised
       \/ /\ Q1Raise("alert")
          /\ UNCHANGED <<q1_out, q1_sleep>>
    /\ UNCHANGED <<q1_cycle, q1_data, q1_obtained, q1_stores, sensor_readings,
                   sqlite_sequence, q1_log>>

Q1Except ==
    /\ UNCHANGED q3vars
    /\ q1_pc = "except"
    /\ q1_log' = "Error in monitoring"
    /\ q1_sleep' = RETRY_DELAY
    /\ q1_pc' = "sleep"
    /\ UNCHANGED <<q1_cycle, q1_data, q1_obtained, q1_stores, sensor_readings,
                   sqlite_sequence, q1_out, q1_alerts, q1_raised>>

Q1Wake ==
    /\ UNCHANGED q3vars
    /\ q1_pc = "sleep"
    /\ q1_pc' = "read"
    /\ q1_log' = ""
    /\ UNCHANGED <<q1_cycle, q1_data, q1_obtained, q1_stores, sensor_readings,
                   sqlite_sequence, q1_out, q1_alerts, q1_raised, q1_sleep>>

-----------------------------------------------------------------------------
(* Q3.py: configuration and inputs *)

HISTORY_LENGTH == 24
IRRIGATION_CUTOFF == 70          \* probability > 0.7, in hundredths
LAST_IRRIGATION_HOURS == 24
DEFAULT_AIR_TEMP == 25
DEFAULT_HUMIDITY == 50
DEFAULT_RAINFALL == 0
DEFAULT_READING == 0             \* payload.get(..., 0)

(* message.payload.  kind "text" is not JSON, "array" is JSON but no       *)
(* object, "object" is a JSON object holding the keys in has.              *)
Payload(kind, has) ==
    [kind |-> kind, has |-> has,
     moisture |-> 35, soil_temperature |-> 20, timestamp |-> "sensor-time"]

NominalPayload == Payload("object", {"moisture", "soil_temperature", "timestamp"})

Payloads ==
    { NominalPayload,
      Payload("object", {"soil_temperature", "timestamp"}),
      Payload("object", {"moisture"}),
      Payload("array", {}),
      Payload("text", {}) }

(* dict.get(key, default) on a parsed payload *)
Get(payload, key, default) ==
    IF key \in payload.has THEN payload[key] ELSE default

(* What requests.get yields: a response, or raises is TRUE.  json_ok tells *)
(* whether response.json() can decode the body, has_rain whether the body  *)
(* holds the key 'rain'.                                                   *)
Response(raises, status, json_ok, has_rain, temp, humidity, rain) ==
    [raises |-> raises, status_code |-> status, json_ok |-> json_ok,
     has_rain |-> has_rain, temp |-> temp, humidity |-> humidity,
     rain_1h |-> rain]

NominalResponse == Response(FALSE, 200, TRUE, TRUE, 28, 60, 2)

Responses ==
    { NominalResponse,
      Response(FALSE, 503, TRUE, FALSE, 0, 0, 0),
      Response(FALSE, 200, FALSE, FALSE, 0, 0, 0),
      Response(TRUE, 0, FALSE, FALSE, 0, 0, 0) }

(* values model.predict_proba returns for class 1, in hundredths: the     *)
(* cutoff itself and the next value above it                              *)
Probabilities == {70, 71}

(* an input that changes the data point of its cycle and is not the        *)
(* nominal one counts against MaxAnomalies                                 *)
PayloadCost(p) == IF p.kind = "object" /\ p # NominalPayload THEN 1 ELSE 0
ResponseCost(r) ==
    IF ~r.raises /\ (r.status_code # 200 \/ r.json_ok) /\ r # NominalResponse
    THEN 1 ELSE 0

-----------------------------------------------------------------------------
(* Q3.py: pure parts *)

(* get_weather_data once requests.get has returned: the decoded body on    *)
(* status 200, None otherwise.  "raise" when response.json() raises.       *)
get_weather_data(r) ==
    IF r.status_code = 200
    THEN IF r.json_ok THEN [kind |-> "dict", r |-> r]
                      ELSE [kind |-> "raise", r |-> r]
    ELSE [kind |-> "None", r |-> r]

(* the three values process_sensor_data takes from weather_data *)
WeatherValues(weather_data) ==
    IF weather_data.kind = "dict"
    THEN [air_temp |-> weather_data.r.temp,
          humidity |-> weather_data.r.humidity,
          rainfall |-> IF weather_data.r.has_rain
                       THEN weather_data.r.rain_1h ELSE 0]
    ELSE [air_temp |-> DEFAULT_AIR_TEMP,
          humidity |-> DEFAULT_HUMIDITY,
          rainfall |-> DEFAULT_RAINFALL]

DataPoint(c) ==
    [timestamp |-> c.timestamp, moisture |-> c.moisture,
     soil_temp |-> c.soil_temp, air_temp |-> c.air_temp,
     humidity |-> c.humidity, rainfall |-> c.rainfall]

(* variant: pop() in place of pop(0) drops the newest point *)
EvictNewest(history) ==
    IF Len(history) > HISTORY_LENGTH
    THEN SubSeq(history, 1, Len(history) - 1) ELSE history

(* variant: the length check is missing, nothing is ever dropped *)
EvictNever(history) == history

(* if len(sensor_history) > HISTORY_LENGTH: sensor_history.pop(0) *)
Evict(history) ==
    IF Len(history) > HISTORY_LENGTH THEN Tail(history) ELSE history

RECURSIVE SumRainfall(_)
SumRainfall(history) ==
    IF history = <<>> THEN 0
    ELSE Head(history).rainfall + SumRainfall(Tail(history))

(* sum(point['rainfall'] for point in sensor_history) *)
RainfallLast24h(history) == SumRainfall(history)

(* the feature row predict_irrigation_need builds from its arguments *)
Features(moisture, temperature, humidity, last_irrigation_hours, rainfall_last_24h) ==
    <<moisture, temperature, humidity, last_irrigation_hours, rainfall_last_24h>>

(* variant: the air temperature is passed where the soil temperature is *)
PredictionFeaturesAirTemp(c, rainfall_last_24h) ==
    Features(c.moisture, c.air_temp, c.humidity, LAST_IRRIGATION_HOURS,
             rainfall_last_24h)

(* the arguments process_sensor_data passes, in its order *)
PredictionFeatures(c, rainfall_last_24h) ==
    Features(c.moisture, c.soil_temp, c.humidity, LAST_IRRIGATION_HOURS,
             rainfall_last_24h)

(* variant: the cutoff is inclusive *)
NeedsIrrigationInclusive(probability) == probability >= IRRIGATION_CUTOFF

(* needs_irrigation = probability > 0.7 *)
NeedsIrrigation(probability) == probability > IRRIGATION_CUTOFF

NoLocals ==
    [moisture |-> 0, soil_temp |-> 0, timestamp |-> "", air_temp |-> 0,
     humidity |-> 0, rainfall |-> 0, weather |-> "none",
     rainfall_last_24h |-> 0, features |-> <<>>, irrigation_needed |-> FALSE,
     confidence |-> 0, payload |-> Payload("none", {})]

NoTrace ==
    [appended |-> FALSE, evicted |-> FALSE, predicted |-> FALSE,
     notifications |-> 0, sends |-> 0, delivered |-> "none",
     published |-> FALSE, raised |-> "none", log |-> {}]

(* a call of process_sensor_data that has not begun *)
NoCall == [pc |-> "idle", locals |-> NoLocals, trace |-> NoTrace]

-----------------------------------------------------------------------------
(* Q3.py: the process.  Module level runs connect, then the model load,    *)
(* then the guard in the last lines; main() subscribes and sleeps.         *)

(* The process stops.  Its memory is gone: the variables of the callback   *)
(* go back to their initial values.                                        *)
ProcessExit(cause, disconnects, conn) ==
    /\ q3_pc' = "exited"
    /\ exit_cause' = cause
    /\ disconnect_calls' = disconnect_calls + disconnects
    /\ connected' = conn
    /\ subscribed' = FALSE
    /\ cb_pc' = "idle"
    /\ cb' = NoLocals
    /\ cb_trace' = NoTrace
    /\ cb_other' = NoCall
    /\ sensor_history' = <<>>
    /\ pushed' = <<>>
    /\ UNCHANGED <<anomalies, overlaps>>

(* the finally clause of main: iot_client.disconnect() *)
MainFinally(cause) == ProcessExit(cause, 1, FALSE)

(* an exception at module level, outside any try: the interpreter exits    *)
ModuleLevelError(cause) == ProcessExit(cause, 0, connected)

cbvars == <<cb_pc, cb, sensor_history, pushed, cb_trace, cb_other, overlaps,
            anomalies>>

Q3Connect ==
    /\ UNCHANGED q1vars
    /\ q3_pc = "connect"
    /\ \/ /\ connected' = TRUE
          /\ q3_pc' = "load_model"
          /\ UNCHANGED <<disconnect_calls, exit_cause, subscribed, cbvars>>
       \/ ModuleLevelError("connect_error")

Q3LoadModel ==
    /\ UNCHANGED q1vars
    /\ q3_pc = "load_model"
    /\ \/ /\ q3_pc' = "entry"
          /\ UNCHANGED <<connected, disconnect_calls, exit_cause, subscribed,
                         cbvars>>
       \/ ModuleLevelError("model_load_error")

(* if _name_ == "_main_": the script binds no name _name_, so evaluating   *)
(* the guard raises NameError; main() runs only under a host that binds    *)
(* _name_ to "_main_" in the module's namespace.                           *)
Q3EntryGuard ==
    /\ UNCHANGED q1vars
    /\ q3_pc = "entry"
    /\ \/ ModuleLevelError("NameError")
       \/ /\ q3_pc' = "subscribe"
          /\ UNCHANGED <<connected, disconnect_calls, exit_cause, subscribed,
                         cbvars>>

Q3Subscribe ==
    /\ UNCHANGED q1vars
    /\ q3_pc = "subscribe"
    /\ \/ /\ subscribed' = TRUE
          /\ q3_pc' = "loop"
          /\ UNCHANGED <<connected, disconnect_calls, exit_cause, cbvars>>
       \/ MainFinally("subscribe_error")

(* the while True: time.sleep(1) loop ends only by an exception *)
Q3LoopInterrupted ==
    /\ UNCHANGED q1vars
    /\ q3_pc = "loop"
    /\ \E cause \in {"KeyboardInterrupt", "loop_error"} : MainFinally(cause)

-----------------------------------------------------------------------------
(* Q3.py: process_sensor_data, called for a message while main() sleeps *)

Q3ExceptTarget(step) == "except"

Q3Raise(step) ==
    /\ cb_pc' = Q3ExceptTarget(step)
    /\ cb_trace' = [cb_trace EXCEPT !.raised = step]

(* what no step of process_sensor_data changes: the state of the main      *)
(* thread and the call that is not running                                 *)
procvars == <<q3_pc, connected, disconnect_calls, exit_cause, subscribed,
              cb_other, overlaps>>

Running == q3_pc = "loop" /\ subscribed

(* json.loads and the three payload.get *)
Q3Receive ==
    /\ UNCHANGED q1vars
    /\ Running
    /\ cb_pc = "idle"
    /\ Len(pushed) < MaxPushes
    /\ IF cb_other.pc = "idle"
       THEN UNCHANGED overlaps
       ELSE overlaps < MaxOverlaps /\ overlaps' = overlaps + 1
    /\ \E p \in Payloads :
          /\ anomalies + PayloadCost(p) <= MaxAnomalies
          /\ anomalies' = anomalies + PayloadCost(p)
          /\ IF p.kind = "object"
             THEN /\ cb' = [cb EXCEPT
                        !.payload = p,
                        !.moisture = Get(p, "moisture", DEFAULT_READING),
                        !.soil_temp = Get(p, "soil_temperature", DEFAULT_READING),
                        !.timestamp = Get(p, "timestamp", "now")]
                  /\ cb_pc' = "weather"
                  /\ UNCHANGED cb_trace
             ELSE /\ cb' = [cb EXCEPT !.payload = p]
                  /\ Q3Raise("parse")
    /\ UNCHANGED <<q3_pc, connected, disconnect_calls, exit_cause, subscribed,
                   cb_other, sensor_history, pushed>>

(* get_weather_data and the if weather_data: ... else: ... *)
Q3Weather ==
    /\ UNCHANGED q1vars
    /\ Running
    /\ cb_pc = "weather"
    /\ \E r \in Responses :
          /\ anomalies + ResponseCost(r) <= MaxAnomalies
          /\ anomalies' = anomalies + ResponseCost(r)
          /\ IF r.raises \/ get_weather_data(r).kind = "raise"
             THEN /\ cb' = [cb EXCEPT !.weather = "raise"]
                  /\ Q3Raise("weather")
             ELSE LET wd == get_weather_data(r)
                      v == WeatherValues(wd)
                  IN /\ cb' = [cb EXCEPT !.weather = wd.kind,
                                         !.air_temp = v.air_temp,
                                         !.humidity = v.humidity,
                                         !.rainfall = v.rainfall]
                     /\ cb_pc' = "append"
                     /\ UNCHANGED cb_trace
    /\ UNCHANGED <<procvars, sensor_history, pushed>>

Q3Append ==
    /\ UNCHANGED q1vars
    /\ Running
    /\ cb_pc = "append"
    /\ sensor_history' = Append(sensor_history, DataPoint(cb))
    /\ pushed' = Append(pushed, DataPoint(cb))
    /\ cb_trace' = [cb_trace EXCEPT !.appended = TRUE]
    /\ cb_pc' = "evict"
    /\ UNCHANGED <<procvars, cb, anomalies>>

Q3Evict ==
    /\ UNCHANGED q1vars
    /\ Running
    /\ cb_pc = "evict"
    /\ sensor_history' = Evict(sensor_history)
    /\ cb_trace' = [cb_trace EXCEPT !.evicted = TRUE]
    /\ cb_pc' = "predict"
    /\ UNCHANGED <<procvars, cb, pushed, anomalies>>

(* the rainfall sum and predict_irrigation_need *)
Q3Predict ==
    /\ UNCHANGED q1vars
    /\ Running
    /\ cb_pc = "predict"
    /\ LET rain == RainfallLast24h(sensor_history)
       IN \/ \E probability \in Probabilities :
                /\ cb' = [cb EXCEPT
                      !.rainfall_last_24h = rain,
                      !.features = PredictionFeatures(cb, rain),
                      !.irrigation_needed = NeedsIrrigation(probability),
                      !.confidence = probability]
                /\ cb_trace' = [cb_trace EXCEPT !.predicted = TRUE]
                /\ cb_pc' = IF NeedsIrrigation(probability)
                            THEN "notify" ELSE "store"
          \/ /\ cb' = [cb EXCEPT !.rainfall_last_24h = rain,
                                 !.features = PredictionFeatures(cb, rain)]
             /\ Q3Raise("predict")
    /\ UNCHANGED <<procvars, sensor_history, pushed, anomalies>>

(* variant: a failed messaging.send is tried a second time *)
SendNotificationRetry(trace, sent) ==
    [trace EXCEPT
        !.notifications = @ + 1,
        !.sends = IF sent THEN @ + 1 ELSE @ + 2,
        !.delivered = IF sent THEN "True" ELSE "False",
        !.log = IF sent THEN @ ELSE @ \cup {"Error sending notification"}]

(* send_notification: messaging.send inside its own try *)
SendNotification(trace, sent) ==
    [trace EXCEPT
        !.notifications = @ + 1,
        !.sends = @ + 1,
        !.delivered = IF sent THEN "True" ELSE "False",
        !.log = IF sent THEN @ ELSE @ \cup {"Error sending notification"}]

Q3Notify ==
    /\ UNCHANGED q1vars
    /\ Running
    /\ cb_pc = "notify"
    /\ \E sent \in BOOLEAN : cb_trace' = SendNotification(cb_trace, sent)
    /\ cb_pc' = "store"
    /\ UNCHANGED <<procvars, cb, sensor_history, pushed, anomalies>>

(* store_prediction_result: iot_client.publish of the result *)
Q3StoreResult ==
    /\ UNCHANGED q1vars
    /\ Running
    /\ cb_pc = "store"
    /\ \/ /\ cb_trace' = [cb_trace EXCEPT !.published = TRUE]
          /\ cb_pc' = "done"
       \/ Q3Raise("store")
    /\ UNCHANGED <<procvars, cb, sensor_history, pushed, anomalies>>

(* variant: the handler takes the data point of the failed call back out   *)
(* of sensor_history                                                       *)
Q3ExceptRollback ==
    /\ UNCHANGED q1vars
    /\ Running
    /\ cb_pc = "except"
    /\ cb_trace' = [cb_trace EXCEPT
                       !.log = @ \cup {"Error processing sensor data"}]
    /\ sensor_history' = IF cb_trace.appended
                         THEN SubSeq(sensor_history, 1, Len(sensor_history) - 1)
                         ELSE sensor_history
    /\ cb_pc' = "done"
    /\ UNCHANGED <<procvars, cb, pushed, anomalies>>

(* except Exception as e: print(...) *)
Q3Except ==
    /\ UNCHANGED q1vars
    /\ Running
    /\ cb_pc = "except"
    /\ cb_trace' = [cb_trace EXCEPT
                       !.log = @ \cup {"Error processing sensor data"}]
    /\ cb_pc' = "done"
    /\ UNCHANGED <<procvars, cb, sensor_history, pushed, anomalies>>

(* the call returns to the client library *)
Q3Return ==
    /\ UNCHANGED q1vars
    /\ Running
    /\ cb_pc = "done"
    /\ cb_pc' = "idle"
    /\ cb' = NoLocals
    /\ cb_trace' = NoTrace
    /\ UNCHANGED <<procvars, sensor_history, pushed, anomalies>>

(* Two calls of process_sensor_data in flight: the thread running one is   *)
(* preempted between two of its steps and the other call runs.  The script *)
(* takes no lock anywhere, so every step boundary is a switch point.       *)
Q3SwitchCall ==
    /\ UNCHANGED q1vars
    /\ Running
    /\ cb_pc # "idle" \/ cb_other.pc # "idle"
    /\ cb_pc' = cb_other.pc
    /\ cb' = cb_other.locals
    /\ cb_trace' = cb_other.trace
    /\ cb_other' = [pc |-> cb_pc, locals |-> cb, trace |-> cb_trace]
    /\ UNCHANGED <<q3_pc, connected, disconnect_calls, exit_cause, subscribed,
                   sensor_history, pushed, overlaps, anomalies>>

Q3Init ==
    /\ q3_pc = "connect"
    /\ connected = FALSE
    /\ disconnect_calls = 0
    /\ exit_cause = "none"
    /\ subscribed = FALSE
    /\ cb_pc = "idle"
    /\ cb = NoLocals
    /\ sensor_history = <<>>
    /\ pushed = <<>>
    /\ cb_trace = NoTrace
    /\ cb_other = NoCall
    /\ overlaps = 0
    /\ anomalies = 0

NextQ3 ==
    \/ Q3Connect
    \/ Q3LoadModel
    \/ Q3EntryGuard
    \/ Q3Subscribe
    \/ Q3LoopInterrupted
    \/ Q3Receive
    \/ Q3Weather
    \/ Q3Append
    \/ Q3Evict
    \/ Q3Predict
    \/ Q3Notify
    \/ Q3StoreResult
    \/ Q3Except
    \/ Q3Return

Q1Init ==
    /\ q1_pc = "init_db"
    /\ q1_cycle = 0
    /\ q1_data = NoData
    /\ q1_obtained = <<>>
    /\ q1_stores = [returned |-> 0, raised |-> 0]
    /\ sensor_readings = <<>>
    /\ sqlite_sequence = 0
    /\ q1_out = <<>>
    /\ q1_alerts = 0
    /\ q1_raised = "none"
    /\ q1_sleep = 0
    /\ q1_log = ""

NextQ1 ==
    \/ Q1InitDb
    \/ Q1Read
    \/ Q1Store
    \/ Q1Publish
    \/ Q1Check
    \/ Q1SendAlert
    \/ Q1Except
    \/ Q1Wake

Init == Q1Init /\ Q3Init

SpecQ1 == Init /\ [][NextQ1]_vars

SpecQ3 == Init /\ [][NextQ3]_vars

(* The two scripts are separate programs that share nothing: a run is a   *)
(* run of Q1.py or a run of Q3.py.                                         *)
Q3NotStarted == q3_pc = "connect"
Q1NotStarted == q1_pc = "init_db"

NextScripts ==
    \/ Q3NotStarted /\ Q1InitDb
    \/ Q3NotStarted /\ Q1Read
    \/ Q3NotStarted /\ Q1Store
    \/ Q3NotStarted /\ Q1Publish
    \/ Q3NotStarted /\ Q1Check
    \/ Q3NotStarted /\ Q1SendAlert
    \/ Q3NotStarted /\ Q1Except
    \/ Q3NotStarted /\ Q1Wake
    \/ Q1NotStarted /\ Q3Connect
    \/ Q1NotStarted /\ Q3LoadModel
    \/ Q1NotStarted /\ Q3EntryGuard
    \/ Q1NotStarted /\ Q3Subscribe
    \/ Q1NotStarted /\ Q3LoopInterrupted
    \/ Q1NotStarted /\ Q3Receive
    \/ Q1NotStarted /\ Q3Weather
    \/ Q1NotStarted /\ Q3Append
    \/ Q1NotStarted /\ Q3Evict
    \/ Q1NotStarted /\ Q3Predict
    \/ Q1NotStarted /\ Q3Notify
    \/ Q1NotStarted /\ Q3StoreResult
    \/ Q1NotStarted /\ Q3Except
    \/ Q1NotStarted /\ Q3Return

(* Q3.py with two calls of process_sensor_data interleaving *)
NextQ3Threads ==
    \/ NextQ3
    \/ Q3SwitchCall

SpecQ3Threads == Init /\ [][NextQ3Threads]_vars

SpecScripts == Init /\ [][NextScripts]_vars

(* monitor_sensors is the only thread of Q1.py that takes these steps and  *)
(* the interpreter keeps running it: a step that can be taken is taken.    *)
FairSpecQ1 == SpecQ1 /\ WF_vars(NextQ1)

-----------------------------------------------------------------------------
(* Properties *)

(* the last n elements of seq, all of it when it is shorter *)
LastN(seq, n) ==
    IF Len(seq) <= n THEN seq ELSE SubSeq(seq, Len(seq) - n + 1, Len(seq))

(* the sum of the rainfall of pushed[lo .. hi] *)
RECURSIVE RainfallOfPushes(_, _)
RainfallOfPushes(lo, hi) ==
    IF lo > hi THEN 0 ELSE pushed[lo].rainfall + RainfallOfPushes(lo + 1, hi)

(* C1: outside the window between the append and the eviction of a cycle,  *)
(* sensor_history holds at most HISTORY_LENGTH data points and they are    *)
(* the most recent min(k, HISTORY_LENGTH) of the k data points pushed so   *)
(* far, in arrival order.                                                  *)
C1_HistoryIsLastPushes ==
    cb_pc # "evict" =>
        /\ Len(sensor_history) <= HISTORY_LENGTH
        /\ sensor_history = LastN(pushed, HISTORY_LENGTH)

C1_Witness ==
    /\ cb_pc = "predict"
    /\ cb_trace.evicted
    /\ Len(pushed) = HISTORY_LENGTH + 2
    /\ pushed[1] # pushed[Len(pushed)]
    /\ sensor_history[1] = pushed[3]

(* C2 as stated: at the end of every iteration that obtained a reading,    *)
(* send_alert has been invoked iff the temperature is above                *)
(* TEMPERATURE_THRESHOLD or the humidity above HUMIDITY_THRESHOLD.         *)
C2_Original ==
    (q1_pc = "sleep" /\ q1_raised # "read") =>
        (q1_alerts >= 1 <=>
            (q1_data.temperature > TEMPERATURE_THRESHOLD
             \/ q1_data.humidity > HUMIDITY_THRESHOLD))

(* C2 amended: at the end of an iteration, send_alert has been invoked     *)
(* (once) iff store_reading and the data publish returned and the          *)
(* temperature is strictly above TEMPERATURE_THRESHOLD or the humidity     *)
(* strictly above HUMIDITY_THRESHOLD; it is never invoked twice.           *)
C2_AlertIffReachedAndExceeds ==
    /\ q1_alerts <= 1
    /\ q1_pc = "sleep" =>
        (q1_alerts = 1 <=>
            /\ q1_raised \notin {"read", "store", "publish"}
            /\ \/ q1_data.temperature > TEMPERATURE_THRESHOLD
               \/ q1_data.humidity > HUMIDITY_THRESHOLD)

C2_Witness ==
    /\ q1_pc = "sleep"
    /\ q1_raised = "none"
    /\ q1_data.temperature = TEMPERATURE_THRESHOLD
    /\ q1_data.humidity = HUMIDITY_THRESHOLD
    /\ q1_alerts = 0

(* C3: once the model has returned a probability, the irrigation flag is   *)
(* true iff the probability is strictly above the cutoff, and from the     *)
(* end of the if on, send_notification has been called (once) iff a        *)
(* prediction was made with the flag true.                                 *)
C3_NotifyIffAboveCutoff ==
    /\ cb_trace.predicted =>
          (cb.irrigation_needed <=> cb.confidence > IRRIGATION_CUTOFF)
    /\ cb_trace.notifications <= 1
    /\ cb_pc \in {"store", "except", "done"} =>
          (cb_trace.notifications = 1 <=>
              (cb_trace.predicted /\ cb.confidence > IRRIGATION_CUTOFF))

C3_Witness ==
    /\ cb_pc = "done"
    /\ cb_trace.predicted
    /\ cb.confidence = IRRIGATION_CUTOFF
    /\ cb_trace.notifications = 0
    /\ cb_trace.published

(* C4 as stated: whenever the weather fetch of a cycle fails (non-200, or  *)
(* an exception in the request or in reading the response), nothing        *)
(* propagates and the cycle goes on with air_temp 25, humidity 50 and      *)
(* rainfall 0.                                                             *)
C4_WeatherFailureYieldsDefaults ==
    cb.weather \in {"None", "raise"} =>
        /\ cb_trace.raised # "weather"
        /\ cb.air_temp = DEFAULT_AIR_TEMP
        /\ cb.humidity = DEFAULT_HUMIDITY
        /\ cb.rainfall = DEFAULT_RAINFALL

(* C5: an iteration of monitor_sensors always reaches its sleep, the sleep *)
(* is the retry delay after an exception (which was logged) and the sensor *)
(* interval otherwise, the loop never ends, and the sleep is followed by   *)
(* the next read.                                                          *)
C5_EveryCycleReturnsToWaiting ==
    /\ [](q1_pc \in {"init_db", "crashed", "read", "store", "publish",
                     "check", "alert", "except", "sleep"})
    /\ [](q1_pc = "sleep" =>
            IF q1_raised = "none"
            THEN q1_sleep = SENSOR_INTERVAL
            ELSE q1_sleep = RETRY_DELAY /\ q1_log = "Error in monitoring")
    /\ (q1_pc \in {"store", "publish", "check", "alert", "except"})
          ~> (q1_pc = "sleep")
    /\ (q1_pc = "sleep") ~> (q1_pc = "read")

C5_Witness ==
    /\ q1_pc = "sleep"
    /\ q1_raised = "alert"
    /\ q1_sleep = RETRY_DELAY
    /\ q1_cycle = 2

(* C6 as stated: after any number of iterations the table holds as many    *)
(* rows as readings were obtained.                                         *)
C6_Original ==
    q1_pc = "sleep" => Len(sensor_readings) = Len(q1_obtained)

(* C6 amended: every store_reading call that returns adds exactly one row  *)
(* with a fresh id, and one that raises adds none: the rows are as many as *)
(* the calls that returned, their ids are 1, 2, ... in insertion order,    *)
(* each row is an obtained reading, no reading has two rows, and the       *)
(* reading of an iteration whose store_reading returned has its row,       *)
(* whether or not it triggers an alert.                                    *)
C6_OneRowPerReturnedStore ==
    /\ Len(sensor_readings) = q1_stores.returned
    /\ Len(q1_obtained) = q1_stores.returned + q1_stores.raised
                          + (IF q1_pc = "store" THEN 1 ELSE 0)
    /\ \A i \in 1..Len(sensor_readings) :
          /\ sensor_readings[i].id = i
          /\ sensor_readings[i].alert_sent = 0
          /\ \E j \in 1..Len(q1_obtained) :
                /\ q1_obtained[j].timestamp = sensor_readings[i].timestamp
                /\ q1_obtained[j].temperature = sensor_readings[i].temperature
                /\ q1_obtained[j].humidity = sensor_readings[i].humidity
          /\ \A k \in 1..Len(sensor_readings) :
                sensor_readings[k].timestamp = sensor_readings[i].timestamp
                    => k = i
    /\ (q1_pc \in {"publish", "check", "alert"}
        \/ (q1_pc \in {"except", "sleep"}
            /\ q1_raised \notin {"read", "store"})) =>
          /\ Len(sensor_readings) >= 1
          /\ sensor_readings[Len(sensor_readings)].timestamp = q1_data.timestamp

C6_Witness ==
    /\ q1_pc = "sleep"
    /\ q1_stores.returned = 2
    /\ q1_stores.raised = 1
    /\ Len(sensor_readings) = 2
    /\ q1_alerts = 1

(* C7 as stated: a payload that is malformed or lacks moisture or          *)
(* soil_temperature has its cycle skipped: nothing is appended, nothing    *)
(* predicted, nothing notified, and the skip is logged.                    *)
InvalidReading(p) ==
    \/ p.kind \in {"text", "array"}
    \/ p.kind = "object" /\ ~({"moisture", "soil_temperature"} \subseteq p.has)

C7_InvalidReadingSkipped ==
    InvalidReading(cb.payload) =>
        /\ ~cb_trace.appended
        /\ ~cb_trace.predicted
        /\ cb_trace.notifications = 0
        /\ cb_pc = "done" => "Error processing sensor data" \in cb_trace.log

(* C8 as stated: once connect() has succeeded, the process never stops     *)
(* without a call of disconnect().                                         *)
C8_DisconnectOnEveryExit ==
    (q3_pc = "exited" /\ exit_cause # "connect_error") =>
        disconnect_calls >= 1

(* C9: when messaging.send raises, the failure is logged, the send was     *)
(* attempted exactly once in the cycle, nothing is raised by the           *)
(* notification, the cycle is at or past store_prediction_result, and the  *)
(* call returns so that the next message is taken.                         *)
C9_FailedDeliveryDoesNotStopCycle ==
    cb_trace.delivered = "False" =>
        /\ "Error sending notification" \in cb_trace.log
        /\ cb_trace.sends = 1
        /\ cb_trace.notifications = 1
        /\ cb_trace.raised \in {"none", "store"}
        /\ \/ cb_pc = "store"
           \/ cb_pc = "except" /\ cb_trace.raised = "store"
           \/ cb_pc = "done" /\ (cb_trace.published \/ cb_trace.raised = "store")
        /\ cb_pc = "done" => ENABLED Q3Return

C9_Witness ==
    /\ cb_trace.delivered = "False"
    /\ cb_pc = "done"
    /\ cb_trace.published
    /\ Len(pushed) = 2

(* C10: the rainfall aggregate handed to the predictor is the sum of the   *)
(* rainfall of the most recent HISTORY_LENGTH pushed data points, the      *)
(* current one included (of all of them while fewer were pushed).          *)
C10_RainfallOverLast24Pushes ==
    cb.features # <<>> =>
        LET k == Len(pushed)
            lo == IF k > HISTORY_LENGTH THEN k - HISTORY_LENGTH + 1 ELSE 1
        IN /\ cb.rainfall_last_24h = RainfallOfPushes(lo, k)
           /\ cb.features[5] = RainfallOfPushes(lo, k)
           /\ pushed[k] = DataPoint(cb)

C10_Witness ==
    /\ cb.features # <<>>
    /\ Len(pushed) = HISTORY_LENGTH + 2
    /\ cb.rainfall_last_24h = RainfallOfPushes(3, HISTORY_LENGTH + 2)
    /\ cb.rainfall_last_24h # RainfallOfPushes(1, HISTORY_LENGTH + 2)

(* the alert messages published in this iteration *)
AlertsPublished == SelectSeq(q1_out, LAMBDA m : m.kind = "alert")

(* C11 as stated: at the end of an iteration whose reading triggered an    *)
(* alert (send_alert was invoked), exactly one alert message has been      *)
(* published in it.                                                        *)
C11_Original ==
    (q1_pc = "sleep" /\ q1_alerts >= 1) => Len(AlertsPublished) = 1

(* C11 amended: an iteration publishes at most one alert message; at its   *)
(* end it has published exactly one iff send_alert was invoked and its     *)
(* publish returned, and none otherwise (no alert triggered, or a step up  *)
(* to the alert's publish raised); the text of the message holds the       *)
(* temperature and TEMPERATURE_THRESHOLD when the temperature is above     *)
(* that threshold, otherwise the humidity and HUMIDITY_THRESHOLD.          *)
C11_OneAlertMessageWithMetric ==
    /\ Len(AlertsPublished) <= 1
    /\ q1_pc = "sleep" =>
          (Len(AlertsPublished) = 1 <=> (q1_alerts = 1 /\ q1_raised = "none"))
    /\ \A i \in 1..Len(AlertsPublished) :
          LET text == AlertsPublished[i].payload.message
          IN IF q1_data.temperature > TEMPERATURE_THRESHOLD
             THEN /\ text[1] = "Temperature"
                  /\ text[2] = q1_data.temperature
                  /\ text[4] = TEMPERATURE_THRESHOLD
             ELSE /\ q1_data.humidity > HUMIDITY_THRESHOLD
                  /\ text[1] = "Humidity"
                  /\ text[2] = q1_data.humidity
                  /\ text[4] = HUMIDITY_THRESHOLD

C11_Witness ==
    /\ q1_pc = "sleep"
    /\ q1_data.temperature = 32000
    /\ q1_data.humidity = 50000
    /\ Len(AlertsPublished) = 1
    /\ AlertsPublished[1].payload.message[2] = 32000
    /\ AlertsPublished[1].payload.message[4] = 30000

(* the rolling rainfall aggregate of the current cycle, from the push log *)
RollingRainfall ==
    LET k == Len(pushed)
    IN RainfallOfPushes(IF k > HISTORY_LENGTH THEN k - HISTORY_LENGTH + 1 ELSE 1, k)

(* C12 as stated: the feature vector is (moisture, soil temperature,       *)
(* ambient air temperature, ambient humidity, rolling rainfall aggregate)  *)
(* of the current cycle, in this order.                                    *)
C12_Original ==
    cb.features # <<>> =>
        cb.features = <<cb.moisture, cb.soil_temp, cb.air_temp, cb.humidity,
                        RollingRainfall>>

(* C12 amended: the feature vector is (moisture, soil temperature, ambient *)
(* humidity, hours since the last irrigation, rolling rainfall aggregate)  *)
(* of the current cycle, in this order, the hours being the constant 24;   *)
(* the ambient air temperature is no part of it.                           *)
C12_FeatureOrder ==
    cb.features # <<>> =>
        /\ Len(cb.features) = 5
        /\ cb.features[1] = cb.moisture
        /\ cb.features[2] = cb.soil_temp
        /\ cb.features[3] = cb.humidity
        /\ cb.features[4] = LAST_IRRIGATION_HOURS
        /\ cb.features[5] = RollingRainfall

C12_Witness ==
    /\ cb.features # <<>>
    /\ cb.weather = "dict"
    /\ cb.payload = NominalPayload
    /\ cb.features[2] = 20
    /\ cb.features[3] = 60
    /\ cb.air_temp = 28
    /\ cb_trace.predicted

(* the reading of the current iteration of monitor_sensors has its row *)
Q1Recorded ==
    \E i \in 1..Len(sensor_readings) :
        /\ sensor_readings[i].timestamp = q1_data.timestamp
        /\ sensor_readings[i].temperature = q1_data.temperature
        /\ sensor_readings[i].humidity = q1_data.humidity

(* the decision of the current iteration of monitor_sensors is being or    *)
(* has been evaluated                                                      *)
Q1Evaluated ==
    \/ q1_pc \in {"check", "alert"}
    \/ q1_alerts >= 1
    \/ q1_pc = "sleep" /\ q1_raised = "none"

InMutation(pc) == pc = "evict"

(* a call of process_sensor_data is about to sum the rainfall of           *)
(* sensor_history                                                          *)
AboutToAggregate(pc) == pc = "predict"

(* C14: when two calls of process_sensor_data interleave, the mutation of  *)
(* sensor_history (append followed by the eviction) is mutually exclusive, *)
(* and a call sums the rainfall over a consistent snapshot: never over     *)
(* more than HISTORY_LENGTH data points and never while the other call     *)
(* has appended but not yet evicted.                                       *)
C14_HistoryMutationExclusive ==
    /\ ~(InMutation(cb_pc) /\ InMutation(cb_other.pc))
    /\ AboutToAggregate(cb_pc) =>
          /\ Len(sensor_history) <= HISTORY_LENGTH
          /\ ~InMutation(cb_other.pc)
    /\ AboutToAggregate(cb_other.pc) =>
          /\ Len(sensor_history) <= HISTORY_LENGTH
          /\ ~InMutation(cb_pc)

(* the rows already in sensor_readings are the same after the step *)
RowsKept ==
    /\ Len(sensor_readings') >= Len(sensor_readings)
    /\ \A i \in 1..Len(sensor_readings) :
          sensor_readings'[i] = sensor_readings[i]

(* the row of the current reading belongs to a reading above a threshold   *)
(* for which send_alert has published its message                          *)
AlertedRow(row) ==
    /\ row.timestamp = q1_data.timestamp
    /\ ExceedsThreshold(row.temperature, row.humidity)
    /\ \E k \in 1..Len(q1_out) : q1_out[k].kind = "alert"

(* C15: in Q1.py no step updates or deletes a row of sensor_readings: a    *)
(* step leaves every existing row as it is (temperature, humidity,         *)
(* timestamp and id) and at most adds rows at the end, and alert_sent is 0 *)
(* in every row in every reachable state, the rows whose reading triggered *)
(* an alert included.                                                      *)
C15_RowsNeverUpdated ==
    /\ [][RowsKept]_vars
    /\ [](\A i \in 1..Len(sensor_readings) : sensor_readings[i].alert_sent = 0)

C15_Witness ==
    /\ q1_pc = "sleep"
    /\ q1_alerts = 1
    /\ Len(sensor_readings) = 2
    /\ AlertedRow(sensor_readings[2])
    /\ sensor_readings[2].alert_sent = 0
    /\ ~ExceedsThreshold(sensor_readings[1].temperature,
                         sensor_readings[1].humidity)

(* the steps of process_sensor_data that raise before the append, and the  *)
(* ones that raise after it                                                *)
RaisedBeforePush == cb_trace.raised \in {"parse", "weather"}

RaisedAfterPush == cb_trace.raised \in {"predict", "store"}

(* the data point of the running call is the newest of sensor_history *)
OwnPointKept ==
    /\ Len(sensor_history) >= 1
    /\ sensor_history[Len(sensor_history)] = DataPoint(cb)

(* a step of a call of process_sensor_data while the process keeps running *)
(* touches sensor_history only at the append and at the length check       *)
HistoryStepsOnly ==
    (q3_pc = "loop" /\ q3_pc' = "loop") =>
        /\ cb_pc # "append" => pushed' = pushed
        /\ cb_pc \notin {"append", "evict"} => sensor_history' = sensor_history
        /\ cb_pc = "append" =>
              /\ sensor_history' = Append(sensor_history, DataPoint(cb))
              /\ Len(pushed') = Len(pushed) + 1

(* C16: a call of process_sensor_data that raises in json.loads or in the  *)
(* weather fetch has not appended and leaves sensor_history as it was; a   *)
(* call that raises in the prediction or in store_prediction_result has    *)
(* appended, its data point stays in sensor_history and no result is       *)
(* published for it; sensor_history is touched in exactly the calls that   *)
(* reach the append.                                                       *)
C16_HistoryChangesIffAppendReached ==
    /\ [][HistoryStepsOnly]_vars
    /\ [](/\ RaisedBeforePush => ~cb_trace.appended
          /\ RaisedAfterPush =>
                 cb_trace.appended /\ OwnPointKept /\ ~cb_trace.published
          /\ cb_pc = "done" => (cb_trace.appended <=> ~RaisedBeforePush)
          /\ (cb_trace.evicted /\ cb_pc # "idle") => OwnPointKept)

C16_Witness ==
    /\ cb_pc = "done"
    /\ cb_trace.raised = "store"
    /\ ~cb_trace.published
    /\ Len(pushed) = HISTORY_LENGTH + 1
    /\ Len(sensor_history) = HISTORY_LENGTH
    /\ OwnPointKept

=============================================================================
